---- MODULE Spec2Model ----
(***************************************************************************)
(* Model of profile_bluesky/startup/10-devices.py: the AB_Shutter,         *)
(* Motor_Shutter and PSO_Device classes, their convenience methods         *)
(* (open, close, taxi, fly, isopen, isclosed) and their set() methods,     *)
(* which create a DeviceStatus and start a thread on a nested function.    *)
(*                                                                         *)
(* Python facts the model rests on:                                        *)
(*  - a function whose body contains "yield from" is a generator           *)
(*    function: calling it builds a generator object and runs none of      *)
(*    its body; threading.Thread(target=run) calls run() once and drops    *)
(*    the result;                                                          *)
(*  - zero-argument super() needs a first positional parameter; in a       *)
(*    function declared with only star-args it raises RuntimeError;        *)
(*  - a name the file never binds (threading) is bound only if the         *)
(*    namespace the file is executed in already holds it.                  *)
(***************************************************************************)
EXTENDS Integers, Sequences, FiniteSets, TLC

\* ---------------------------------------------------------------- bounds
\* number of set() calls in a run
MaxCalls == 1
\* number of EpicsSignal.put calls in a run
MaxPuts == 2
\* motor positions are multiples of 1/Grid
Grid == 128
\* positions observed around open_position and closed_position, in grid steps
Margin == 2

\* ------------------------------------------------------ program constants
\* Motor_Shutter.open_position = 0.0, in units of 1/Grid
open_position == 0
\* Motor_Shutter.closed_position = 1.0, in units of 1/Grid
closed_position == 1 * Grid
\* Motor_Shutter._tolerance = 0.01, as the fraction tolerance_num/tolerance_den
tolerance_num == 1
tolerance_den == 100
\* the value AB_Shutter.__init__ means to store in self.delay (1.0 s)
delay == 1

Classes == {"AB_Shutter", "Motor_Shutter", "PSO_Device"}
\* the values set() is called with; "bad" is in no class's accepted pair
Values == {"open", "close", "Taxi", "Fly", "bad"}

\* the pair of values the if/elif chain of a class's run() accepts
Accepted(cls) ==
  IF cls = "PSO_Device" THEN {"Taxi", "Fly"} ELSE {"open", "close"}

\* the statements of a class's nested run(), in order, after the if/elif/else
\* chain on value
RunBody(cls) ==
  CASE cls = "AB_Shutter"    -> <<"if value", "yield from sleep", "status._finished">>
    [] cls = "Motor_Shutter" -> <<"if value: yield from mv", "status._finished">>
    [] cls = "PSO_Device"    -> <<"if value", "yield from sleep", "status._finished">>

\* a yield anywhere in a function body makes it a generator function
IsGeneratorFunction(cls) ==
  \E k \in 1..Len(RunBody(cls)) :
     RunBody(cls)[k] \in {"yield from sleep", "if value: yield from mv"}

\* positions the motor readback is observed at
Positions ==
  {p \in (open_position - Margin)..(closed_position + Margin) :
      \/ p <= open_position + Margin
      \/ p >= closed_position - Margin
      \/ p = (open_position + closed_position) \div 2}

\* positions the motor stands at before any call: below open_position,
\* between the two, above closed_position
InitPositions ==
  {open_position - Margin, (open_position + closed_position) \div 2,
   closed_position + Margin}

Abs(x) == IF x < 0 THEN -x ELSE x

\* the signals the methods write: AB_Shutter.pss_open, AB_Shutter.pss_close,
\* PSO_Device.pso_taxi, PSO_Device.pso_fly
Signals == {"pss_open", "pss_close", "pso_taxi", "pso_fly"}

\* the text msg is bound to in the else branch of a class's run()
BaseMsg(cls) ==
  IF cls = "PSO_Device" THEN "value should be either Taxi or Fly."
  ELSE "value should be either open or close."

VARIABLES
  threading_bound,  \* whether the name "threading" is bound in the namespace
  ab_init,          \* outcome of AB_Shutter(prefix, name=...)
  ab_delay,         \* the AB_Shutter instance's delay attribute
  puts,             \* per signal, the values EpicsSignal.put has written
  motor_position,   \* Motor_Shutter.motor.position, units of 1/Grid
  motor_setpoint,   \* <<target>> of the last motor.move, <<>> before any
  motor_moving,     \* a motor.move is in progress (the caller is blocked)
  motor_cmd,        \* the Motor_Shutter method that issued the last move
  calls             \* one record per set() call

vars == <<threading_bound, ab_init, ab_delay, puts, motor_position,
          motor_setpoint, motor_moving, motor_cmd, calls>>

devstate == <<puts, motor_position, motor_setpoint, motor_moving, motor_cmd>>

Init ==
  /\ threading_bound \in BOOLEAN
  /\ ab_init = "not_called"
  /\ ab_delay = "unset"
  /\ puts = [s \in Signals |-> <<>>]
  /\ motor_position \in InitPositions
  /\ motor_setpoint = <<>>
  /\ motor_moving = FALSE
  /\ motor_cmd = "none"
  /\ calls = <<>>

\* the calling thread is not blocked inside motor.move
MainIdle == ~motor_moving

\* EpicsSignal.put(value) on the named signal
Put(sig, val) == puts' = [puts EXCEPT ![sig] = Append(@, val)]

\* number of put calls so far
NPuts ==
  Len(puts["pss_open"]) + Len(puts["pss_close"])
    + Len(puts["pso_taxi"]) + Len(puts["pso_fly"])

\* ------------------------------------------------------------ AB_Shutter
\* AB_Shutter(prefix, name=...): __init__ has no positional parameter, so
\* super() raises RuntimeError before Device.__init__ or self.delay run
AB_Shutter_init ==
  /\ MainIdle
  /\ ab_init = "not_called"
  /\ ab_init' = "RuntimeError"
  /\ ab_delay' = ab_delay
  /\ UNCHANGED <<threading_bound, devstate, calls>>

\* open(), close() and set() are modelled on an AB_Shutter instance whose
\* Device part is set up; ab_init records only what the class's own __init__
\* does when it is called
AB_open ==
  /\ MainIdle
  /\ NPuts < MaxPuts
  /\ Put("pss_open", 1)
  /\ UNCHANGED <<threading_bound, ab_init, ab_delay, motor_position,
                 motor_setpoint, motor_moving, motor_cmd, calls>>

AB_close_wrong_signal ==
  /\ MainIdle
  /\ NPuts < MaxPuts
  /\ Put("pss_open", 1)
  /\ UNCHANGED <<threading_bound, ab_init, ab_delay, motor_position,
                 motor_setpoint, motor_moving, motor_cmd, calls>>

AB_close ==
  /\ MainIdle
  /\ NPuts < MaxPuts
  /\ Put("pss_close", 1)
  /\ UNCHANGED <<threading_bound, ab_init, ab_delay, motor_position,
                 motor_setpoint, motor_moving, motor_cmd, calls>>

\* ---------------------------------------------------------- Motor_Shutter
isopen ==
  Abs(motor_position - open_position) * tolerance_den <= tolerance_num * Grid

isclosed ==
  Abs(motor_position - closed_position) * tolerance_den <= tolerance_num * Grid

\* EpicsMotor.move(position): blocks the caller until the motor is there
Move(target) ==
  /\ motor_setpoint' = <<target>>
  /\ motor_moving' = (motor_position # target)
  /\ motor_position' = motor_position

Motor_open ==
  /\ MainIdle
  /\ Move(open_position)
  /\ motor_cmd' = "open"
  /\ UNCHANGED <<threading_bound, ab_init, ab_delay, puts, calls>>

Motor_close_wrong_target ==
  /\ MainIdle
  /\ Move(open_position)
  /\ motor_cmd' = "close"
  /\ UNCHANGED <<threading_bound, ab_init, ab_delay, puts, calls>>

Motor_close ==
  /\ MainIdle
  /\ Move(closed_position)
  /\ motor_cmd' = "close"
  /\ UNCHANGED <<threading_bound, ab_init, ab_delay, puts, calls>>

\* the motor travels towards its setpoint; the move ends on arrival
MotorStep ==
  /\ motor_moving
  /\ \E p \in Positions :
       /\ \/ motor_position < p /\ p <= motor_setpoint[1]
          \/ motor_setpoint[1] <= p /\ p < motor_position
       /\ motor_position' = p
       /\ motor_moving' = (p # motor_setpoint[1])
  /\ UNCHANGED <<motor_setpoint, motor_cmd>>
  /\ UNCHANGED <<threading_bound, ab_init, ab_delay, puts, calls>>

\* ------------------------------------------------------------- PSO_Device
PSO_taxi ==
  /\ MainIdle
  /\ NPuts < MaxPuts
  /\ Put("pso_taxi", "Taxi")
  /\ UNCHANGED <<threading_bound, ab_init, ab_delay, motor_position,
                 motor_setpoint, motor_moving, motor_cmd, calls>>

PSO_fly ==
  /\ MainIdle
  /\ NPuts < MaxPuts
  /\ Put("pso_fly", "Fly")
  /\ UNCHANGED <<threading_bound, ab_init, ab_delay, motor_position,
                 motor_setpoint, motor_moving, motor_cmd, calls>>

\* ------------------------------------------------------------------ set()
\* status = DeviceStatus(self); def run(): ...; thread = threading.Thread(
\* target=run); thread.start(); return status.  The body is the same in the
\* three classes up to the text of run().  When "threading" is unbound the
\* call ends in NameError: no thread, no status returned.
SetCall(cls, value) ==
  /\ MainIdle
  /\ Len(calls) < MaxCalls
  /\ calls' = Append(calls,
       [cls     |-> cls,
        value   |-> value,
        result  |-> IF threading_bound THEN "DeviceStatus" ELSE "NameError",
        thread  |-> IF threading_bound THEN "started" ELSE "none",
        gen     |-> "none",
        exc     |-> "none",
        msg     |-> "",
        done    |-> FALSE,
        success |-> FALSE])
  /\ UNCHANGED <<threading_bound, ab_init, ab_delay, devstate>>

AB_set(value) == SetCall("AB_Shutter", value)

Motor_set(value) == SetCall("Motor_Shutter", value)

PSO_set(value) == SetCall("PSO_Device", value)

ThreadRun_finishes(i) ==
  /\ calls[i].thread = "started"
  /\ calls' = [calls EXCEPT ![i].thread = "exited", ![i].done = TRUE,
                            ![i].success = TRUE]
  /\ UNCHANGED <<threading_bound, ab_init, ab_delay, devstate>>

\* Thread.run of the thread of call i: self._target() is run(); run is a
\* generator function, so the call returns a generator object that nothing
\* iterates, and the thread ends
ThreadRun(i) ==
  /\ calls[i].thread = "started"
  /\ IsGeneratorFunction(calls[i].cls)
  /\ calls' = [calls EXCEPT ![i].thread = "exited", ![i].gen = "created"]
  /\ UNCHANGED <<threading_bound, ab_init, ab_delay, devstate>>

Next ==
  \/ AB_Shutter_init
  \/ AB_open
  \/ AB_close
  \/ Motor_open
  \/ Motor_close
  \/ MotorStep
  \/ PSO_taxi
  \/ PSO_fly
  \/ \E v \in Values : AB_set(v)
  \/ \E v \in Values : Motor_set(v)
  \/ \E v \in Values : PSO_set(v)
  \/ \E i \in 1..MaxCalls : i <= Len(calls) /\ ThreadRun(i)

Spec == Init /\ [][Next]_vars

\* ------------------------------------------------------------ properties
CallIds == 1..Len(calls)

\* the thread of call i has run to its end: nothing more happens for it
Exited(i) == calls[i].thread = "exited"

Valid(i) == calls[i].value \in Accepted(calls[i].cls)

\* C1: every AB_Shutter.set("open"/"close") ends with its status finished
\* with success=True, after the matching pss_open / pss_close write.
\* Stated for the calls whose thread has ended.
C1_AB_set_finishes ==
  \A i \in CallIds :
    (calls[i].cls = "AB_Shutter" /\ Valid(i) /\ Exited(i)) =>
      /\ calls[i].done /\ calls[i].success
      /\ calls[i].value = "open" => puts["pss_open"] # <<>>
      /\ calls[i].value = "close" => puts["pss_close"] # <<>>

\* C2: every Motor_Shutter.set("open"/"close") ends with the motor at
\* open_position / closed_position and its status finished with success=True.
C2_Motor_set_moves_and_finishes ==
  \A i \in CallIds :
    (calls[i].cls = "Motor_Shutter" /\ Valid(i) /\ Exited(i)) =>
      /\ calls[i].done /\ calls[i].success
      /\ calls[i].value = "open" => motor_setpoint = <<open_position>>
      /\ calls[i].value = "close" => motor_setpoint = <<closed_position>>

\* C3: every PSO_Device.set("Taxi"/"Fly") ends with "Taxi" written to
\* pso_taxi / "Fly" written to pso_fly and its status finished with
\* success=True.
C3_PSO_set_writes_and_finishes ==
  \A i \in CallIds :
    (calls[i].cls = "PSO_Device" /\ Valid(i) /\ Exited(i)) =>
      /\ calls[i].done /\ calls[i].success
      /\ calls[i].value = "Taxi" => puts["pso_taxi"] = <<"Taxi">>
      /\ calls[i].value = "Fly" => puts["pso_fly"] = <<"Fly">>

\* C4: a set() call with a value outside the class's accepted pair leads to
\* a ValueError being raised.
C4_invalid_value_raises_ValueError ==
  \A i \in CallIds :
    (~Valid(i) /\ Exited(i)) => calls[i].exc = "ValueError"

\* C5: AB_Shutter(prefix, name=...) succeeds and the device's delay is 1.0.
C5_AB_construction_sets_delay ==
  ab_init # "not_called" => (ab_init = "ok" /\ ab_delay = delay)

\* C6: AB_Shutter.open() appends exactly the value 1 to pss_open and
\* AB_Shutter.close() exactly the value 1 to pss_close; the step changes no
\* other signal, no motor state and no set() call.
C6_open_close_write_one_signal ==
  [][ /\ AB_open =>
          /\ puts'["pss_open"] = puts["pss_open"] \o <<1>>
          /\ \A s \in Signals \ {"pss_open"} : puts'[s] = puts[s]
          /\ UNCHANGED <<motor_position, motor_setpoint, motor_moving, motor_cmd, calls>>
      /\ AB_close =>
          /\ puts'["pss_close"] = puts["pss_close"] \o <<1>>
          /\ \A s \in Signals \ {"pss_close"} : puts'[s] = puts[s]
          /\ UNCHANGED <<motor_position, motor_setpoint, motor_moving, motor_cmd, calls>>
    ]_vars

\* a close() on a shutter whose pss_open was written before, and the reverse
C6_witness ==
  puts["pss_open"] = <<1>> /\ puts["pss_close"] = <<1>>

\* position p is within 1/100 of x, both in units of 1/Grid
InTolerance(p, x) ==
  /\ x * tolerance_den - tolerance_num * Grid <= p * tolerance_den
  /\ p * tolerance_den <= x * tolerance_den + tolerance_num * Grid

\* C7: Motor_Shutter.open() commands open_position and close() commands
\* closed_position; when the motor has arrived, isopen() holds after open()
\* and isclosed() after close(); isopen()/isclosed() hold exactly at the
\* positions within _tolerance of open_position/closed_position.
C7_motor_shutter_positions ==
  /\ motor_cmd = "open" => motor_setpoint = <<open_position>>
  /\ motor_cmd = "close" => motor_setpoint = <<closed_position>>
  /\ (motor_cmd = "open" /\ ~motor_moving) => isopen
  /\ (motor_cmd = "close" /\ ~motor_moving) => isclosed
  /\ isopen <=> InTolerance(motor_position, open_position)
  /\ isclosed <=> InTolerance(motor_position, closed_position)

\* close() was the last command and the motor has arrived
C7_witness ==
  /\ motor_cmd = "close"
  /\ ~motor_moving
  /\ motor_position = closed_position
  /\ isclosed

\* C8: the ValueError of a set() call with an invalid value carries the base
\* text followed by " received " and the value.
C8_ValueError_message_has_value ==
  \A i \in CallIds :
    (~Valid(i) /\ Exited(i)) =>
      /\ calls[i].exc = "ValueError"
      /\ calls[i].msg = BaseMsg(calls[i].cls) \o " received " \o calls[i].value

\* C9: a set() call with a value outside the accepted pair changes no device
\* state: neither the call nor its thread writes a signal or commands the
\* motor, and its status is never finished with success=True.
C9_invalid_value_changes_nothing ==
  [][ \A i \in 1..Len(calls') :
        (calls'[i].value \notin Accepted(calls'[i].cls)) =>
          /\ ~(calls'[i].done /\ calls'[i].success)
          /\ (i > Len(calls) \/ calls'[i] # calls[i]) =>
                UNCHANGED <<puts, motor_position, motor_setpoint,
                            motor_moving, motor_cmd>>
    ]_vars

\* the thread of a set() call with an invalid value has ended
C9_witness ==
  \E i \in CallIds : ~Valid(i) /\ Exited(i)

====
